---------------------------- MODULE Spec2Model ----------------------------
(***************************************************************************)
(* Fleet calendar: the timeline layout engine of src/components/Timeline.tsx *)
(* (row grouping, lane packer, coordinate mapper) and the overlap predicate  *)
(* of src/constants.ts.                                                      *)
(*                                                                           *)
(* Representation.                                                           *)
(*  - A date string is represented by the instant it parses to, an integer   *)
(*    number of minutes counted from a local midnight (>= 0), or by NaN when *)
(*    it does not parse.  Local time has a fixed UTC offset (no DST change   *)
(*    inside the modelled range), so a calendar day is MinutesPerDay.        *)
(*  - A text field (modelPreference, pickupLocation, a map key) is a         *)
(*    sequence of characters; a run of characters without '|' is written as  *)
(*    one element, the delimiter is the element "|".  The empty sequence     *)
(*    stands for a missing or empty (falsy) field.                           *)
(*  - Pixel lengths are exact rationals, stored as numerators over PxDen.    *)
(***************************************************************************)
EXTENDS Integers, Sequences, FiniteSets, TLC

VARIABLES
    groups,          \* props.groups: sequence of group ids
    vehicles,        \* props.vehicles: sequence of [id, groupId, isVirtual]
    events,          \* props.events: sequence of FleetEvent records
    propStartDate,   \* props.startDate (an instant)
    daysToShow,      \* props.daysToShow
    viewScale,       \* props.viewScale: "day" or "hour"
    rowLayouts,      \* the rowLayouts map: row key -> [height, eventsWithLanes]
    sidebarRows,     \* rows emitted into the sticky sidebar, in order
    gridRows,        \* rows emitted into the grid body, in order, with bars
    phase,           \* "props": not rendered yet; "rendered": one pass done
    sortTie,         \* the engine's sort under an inconsistent comparator:
                     \* a priority per array position
    currentDate,     \* App state: currentDate (an instant)
    onlyWithBookings,\* App state: filters.onlyWithBookings
    topScrollLeft,   \* scrollLeft of the top scrollbar element
    mainScrollLeft,  \* scrollLeft of the main pane
    topScrollMax,    \* largest scrollLeft the top scrollbar can take (layout)
    mainScrollMax,   \* largest scrollLeft the main pane can take (layout)
    pendingScroll,   \* elements with a scroll event queued for dispatch
    isSyncing,       \* isSyncingRef.current
    userScrolls      \* number of scroll gestures the user has made

vars == <<groups, vehicles, events, propStartDate, daysToShow, viewScale,
          rowLayouts, sidebarRows, gridRows, phase, sortTie,
          currentDate, onlyWithBookings,
          topScrollLeft, mainScrollLeft, topScrollMax, mainScrollMax,
          pendingScroll, isSyncing, userScrolls>>
shellVars == <<currentDate, onlyWithBookings>>
scrollVars == <<topScrollLeft, mainScrollLeft, topScrollMax, mainScrollMax,
                pendingScroll, isSyncing, userScrolls>>

----------------------------------------------------------------------------
(* Program constants *)

CELL_WIDTH == 140
CELL_WIDTH_HOUR == 60
ROW_HEIGHT_STD == 50
EVENT_HEIGHT == 40
EVENT_GAP == 4

MinutesPerHour == 60
MinutesPerDay == 1440
\* getTime() of an Invalid Date; every valid instant of the model is >= 0
NaN == -1
\* common denominator of the pixel numerators
PxDen == 1440

BOOKING_ASSIGNED == "BOOKING_ASSIGNED"
BOOKING_UNASSIGNED == "BOOKING_UNASSIGNED"
UnknownModel == <<"Unknown Model">>
UnknownLoc == <<"Unknown Loc">>
Null == "null"

----------------------------------------------------------------------------
(* Bounds of the model *)

MaxEvents == 3       \* events of the one row of SpecLanes
MaxTime == 2         \* instants 0..MaxTime of SpecLanes
MaxRowEvents == 2    \* events of SpecRows
MaxVehicles == 2     \* vehicles of SpecRows
MaxDay == 2          \* calendar days 0..MaxDay of SpecGeom
MaxDaysToShow == 3   \* daysToShow in 1..MaxDaysToShow of SpecGeom
MaxShellDay == 9     \* currentDate within the days 1..MaxShellDay of SpecShell
MaxShellSpan == 30   \* daysToShow at most MaxShellSpan in SpecShell
MaxScroll == 2       \* the top scrollbar's scroll range is at most MaxScroll
ScrollbarWidth == 1  \* width a vertical scrollbar takes from the main pane
MaxUserScrolls == 2  \* scrolls the user makes in SpecScroll

----------------------------------------------------------------------------
(* Number helpers: IEEE comparisons with NaN are false *)

IsNaN(x) == x = NaN
NumLt(a, b) == ~IsNaN(a) /\ ~IsNaN(b) /\ a < b
NumGe(a, b) == ~IsNaN(a) /\ ~IsNaN(b) /\ a >= b
Max(a, b) == IF a >= b THEN a ELSE b
\* Math.trunc(a / b) for b > 0
Trunc(a, b) == IF a >= 0 THEN a \div b ELSE -((-a) \div b)

----------------------------------------------------------------------------
(* constants.ts: checkOverlap *)

\* plausible slips: the comparisons written as negated >=, the second
\* comparison made against end2, and non-strict comparisons
CheckOverlap_Negated(start1, end1, start2, end2) ==
    ~NumGe(start1, end2) /\ ~NumGe(start2, end1)
CheckOverlap_SameEnd(start1, end1, start2, end2) ==
    NumLt(start1, end2) /\ NumLt(start2, end2)
CheckOverlap_NonStrict(start1, end1, start2, end2) ==
    NumGe(end2, start1) /\ NumGe(end1, start2)

\* s1 < e2 && s2 < e1 on the getTime() values
CheckOverlap(start1, end1, start2, end2) ==
    NumLt(start1, end2) /\ NumLt(start2, end1)

----------------------------------------------------------------------------
(* Timeline.tsx: computeLanes *)

\* the comparator of the sort: a.start - b.start; a NaN result counts as 0
SortCompare(a, b) ==
    IF IsNaN(a.startDate) \/ IsNaN(b.startDate) THEN 0
    ELSE a.startDate - b.startDate

\* stable insertion of e into the sorted sequence t
InsertSorted(t, e) ==
    LET keep == {i \in 1..Len(t) : SortCompare(t[i], e) <= 0}
        pos == IF keep = {} THEN 0 ELSE CHOOSE i \in keep : \A j \in keep : j <= i
    IN SubSeq(t, 1, pos) \o <<e>> \o SubSeq(t, pos + 1, Len(t))

RECURSIVE StableSort(_)
StableSort(s) ==
    IF s = <<>> THEN <<>>
    ELSE InsertSorted(StableSort(SubSeq(s, 1, Len(s) - 1)), s[Len(s)])

\* the comparator orders s consistently: "compares as 0" is transitive (it
\* is not when a start does not parse, NaN comparing as 0 with every start)
ConsistentComparator(s) ==
    \A i, j, k \in DOMAIN s :
        (SortCompare(s[i], s[j]) = 0 /\ SortCompare(s[j], s[k]) = 0)
            => SortCompare(s[i], s[k]) = 0

\* the order of s is implementation-defined: the positions by their priority
ImplementationOrder(s) ==
    LET rank(i) == Cardinality({j \in DOMAIN s : sortTie[j] <= sortTie[i]})
    IN [k \in DOMAIN s |-> s[CHOOSE i \in DOMAIN s : rank(i) = k]]

SortByStart_Unsorted(rowEvents) == rowEvents
\* a plausible slip: a sort that does not keep the order of equal starts
SortByStart_Unstable(rowEvents) ==
    StableSort([i \in 1..Len(rowEvents) |-> rowEvents[Len(rowEvents) + 1 - i]])

\* [...rowEvents].sort(by start time): Array.prototype.sort is stable, and
\* sorts in an implementation-defined order if the comparator is inconsistent
SortByStart(rowEvents) ==
    IF ConsistentComparator(rowEvents) THEN StableSort(rowEvents)
    ELSE ImplementationOrder(rowEvents)

LaneAccepts_Strict(ev, lastEvent) ==
    /\ ~CheckOverlap(ev.startDate, ev.endDate, lastEvent.startDate, lastEvent.endDate)
    /\ NumLt(lastEvent.endDate, ev.startDate)

\* a plausible slip: the gate reduced to its checkOverlap test
LaneAccepts_OverlapOnly(ev, lastEvent) ==
    ~CheckOverlap(ev.startDate, ev.endDate, lastEvent.startDate, lastEvent.endDate)

\* the two nested ifs that guard lanes[i].push(ev)
LaneAccepts(ev, lastEvent) ==
    /\ ~CheckOverlap(ev.startDate, ev.endDate, lastEvent.startDate, lastEvent.endDate)
    /\ NumGe(ev.startDate, lastEvent.endDate)

Last(s) == s[Len(s)]

\* a plausible slip: the scan over the lanes run from the last lane down
PlaceEvent_LastFit(st, ev) ==
    LET fits == {i \in 1..Len(st.lanes) : LaneAccepts(ev, Last(st.lanes[i]))}
    IN IF fits # {}
       THEN LET i == CHOOSE k \in fits : \A j \in fits : j <= k
            IN [lanes |-> [st.lanes EXCEPT ![i] = Append(@, ev)],
                eventsWithLanes |->
                    Append(st.eventsWithLanes, [event |-> ev, laneIndex |-> i - 1])]
       ELSE [lanes |-> Append(st.lanes, <<ev>>),
             eventsWithLanes |->
                 Append(st.eventsWithLanes,
                        [event |-> ev, laneIndex |-> Len(st.lanes)])]

\* one iteration of sorted.forEach: st = [lanes, eventsWithLanes]
PlaceEvent(st, ev) ==
    LET fits == {i \in 1..Len(st.lanes) : LaneAccepts(ev, Last(st.lanes[i]))}
    IN IF fits # {}
       THEN LET i == CHOOSE k \in fits : \A j \in fits : k <= j
            IN [lanes |-> [st.lanes EXCEPT ![i] = Append(@, ev)],
                eventsWithLanes |->
                    Append(st.eventsWithLanes, [event |-> ev, laneIndex |-> i - 1])]
       ELSE [lanes |-> Append(st.lanes, <<ev>>),
             eventsWithLanes |->
                 Append(st.eventsWithLanes,
                        [event |-> ev, laneIndex |-> Len(st.lanes)])]

RECURSIVE PackLanes(_)
\* sorted.forEach(ev => ...) from empty lanes
PackLanes(sorted) ==
    IF sorted = <<>> THEN [lanes |-> <<>>, eventsWithLanes |-> <<>>]
    ELSE PlaceEvent(PackLanes(SubSeq(sorted, 1, Len(sorted) - 1)), Last(sorted))

DynamicHeight_NoMinLane(lanesLength) ==
    12 + (lanesLength * (EVENT_HEIGHT + EVENT_GAP)) + 12

DynamicHeight_NoPadding(lanesLength) ==
    Max(1, lanesLength) * (EVENT_HEIGHT + EVENT_GAP)

\* laneCount = Math.max(1, lanes.length); 12 + laneCount * (H + G) + 12
DynamicHeight(lanesLength) ==
    12 + (Max(1, lanesLength) * (EVENT_HEIGHT + EVENT_GAP)) + 12

ComputeLanes_AlwaysPack(rowEvents, isInfinite) ==
    LET packed == PackLanes(SortByStart(rowEvents))
    IN [height |-> Max(ROW_HEIGHT_STD, DynamicHeight(Len(packed.lanes))),
        eventsWithLanes |-> packed.eventsWithLanes]

\* a plausible slip: the height taken from the lanes alone, without the
\* padding and without the ROW_HEIGHT_STD floor
ComputeLanes_NoFloor(rowEvents, isInfinite) ==
    LET packed == PackLanes(SortByStart(rowEvents))
    IN IF ~isInfinite
       THEN [height |-> ROW_HEIGHT_STD,
             eventsWithLanes |->
                 [i \in 1..Len(rowEvents) |-> [event |-> rowEvents[i], laneIndex |-> 0]]]
       ELSE [height |-> Len(packed.lanes) * (EVENT_HEIGHT + EVENT_GAP),
             eventsWithLanes |-> packed.eventsWithLanes]

ComputeLanes(rowEvents, isInfinite) ==
    IF ~isInfinite
    THEN [height |-> ROW_HEIGHT_STD,
          eventsWithLanes |->
              [i \in 1..Len(rowEvents) |-> [event |-> rowEvents[i], laneIndex |-> 0]]]
    ELSE LET packed == PackLanes(SortByStart(rowEvents))
         IN [height |-> Max(ROW_HEIGHT_STD, DynamicHeight(Len(packed.lanes))),
             eventsWithLanes |-> packed.eventsWithLanes]

----------------------------------------------------------------------------
(* Timeline.tsx: vehiclesByGroup, pendingQueuesByGroup, rowLayouts *)

OrElse(text, fallback) == IF text = <<>> THEN fallback ELSE text

\* `${e.modelPreference || 'Unknown Model'}|${e.pickupLocation || 'Unknown Loc'}`
QueueKey(e) ==
    OrElse(e.modelPreference, UnknownModel) \o <<"|">> \o OrElse(e.pickupLocation, UnknownLoc)

RECURSIVE Split(_)
\* key.split('|')
Split(s) ==
    LET bars == {i \in 1..Len(s) : s[i] = "|"}
    IN IF bars = {} THEN <<s>>
       ELSE LET i == CHOOSE k \in bars : \A j \in bars : k <= j
            IN <<SubSeq(s, 1, i - 1)>> \o Split(SubSeq(s, i + 1, Len(s)))

\* `queue_${g.id}_${key}`
QueueRowKey(g, key) == <<"queue_", g, "_">> \o key
VehicleRowKey(v) == <<v.id>>

\* vehiclesByGroup[g] || []
VehiclesByGroup(g) == SelectSeq(vehicles, LAMBDA v : v.groupId = g)

RECURSIVE Unique(_)
\* Array.from(new Set(...)): first occurrences, in insertion order
Unique(s) ==
    IF s = <<>> THEN <<>>
    ELSE LET front == Unique(SubSeq(s, 1, Len(s) - 1))
         IN IF \E i \in 1..Len(front) : front[i] = Last(s) THEN front
            ELSE Append(front, Last(s))

\* pendingQueuesByGroup.get(g) || [], for the events prop evs
PendingQueuesOf(evs, g) ==
    LET groupPendingEvents ==
            SelectSeq(evs, LAMBDA e : e.groupId = g /\ e.type = BOOKING_UNASSIGNED)
    IN Unique([i \in 1..Len(groupPendingEvents) |-> QueueKey(groupPendingEvents[i])])

PendingQueues(g) == PendingQueuesOf(events, g)

\* a plausible slip: the type test left out of the queue row's filter
QueueEventsOf_AnyType(evs, g, key) ==
    LET parts == Split(key)
        model == parts[1]
        loc == parts[2]
    IN SelectSeq(evs, LAMBDA e :
           /\ e.groupId = g
           /\ OrElse(e.modelPreference, UnknownModel) = model
           /\ OrElse(e.pickupLocation, UnknownLoc) = loc)

\* the events.filter(...) of a queue row
QueueEventsOf(evs, g, key) ==
    LET parts == Split(key)
        model == parts[1]
        loc == parts[2]
    IN SelectSeq(evs, LAMBDA e :
           /\ e.groupId = g
           /\ e.type = BOOKING_UNASSIGNED
           /\ OrElse(e.modelPreference, UnknownModel) = model
           /\ OrElse(e.pickupLocation, UnknownLoc) = loc)

QueueEvents(g, key) == QueueEventsOf(events, g, key)

\* events.filter(e => e.vehicleId === v.id)
VehicleEventsOf(evs, v) == SelectSeq(evs, LAMBDA e : e.vehicleId = v.id)

VehicleEvents(v) == VehicleEventsOf(events, v)

\* the layouts.set calls made for group g, in order
GroupLayoutEntriesOf(evs, g) ==
    LET queueKeys == PendingQueuesOf(evs, g)
        groupVehicles == VehiclesByGroup(g)
    IN [i \in 1..Len(queueKeys) |->
           [key |-> QueueRowKey(g, queueKeys[i]),
            value |-> ComputeLanes(QueueEventsOf(evs, g, queueKeys[i]), TRUE)]]
       \o
       [i \in 1..Len(groupVehicles) |->
           [key |-> VehicleRowKey(groupVehicles[i]),
            value |-> ComputeLanes(VehicleEventsOf(evs, groupVehicles[i]),
                                   groupVehicles[i].isVirtual)]]

GroupLayoutEntries(g) == GroupLayoutEntriesOf(events, g)

RECURSIVE Flatten(_)
Flatten(ss) ==
    IF ss = <<>> THEN <<>>
    ELSE Flatten(SubSeq(ss, 1, Len(ss) - 1)) \o Last(ss)

\* a Map built by successive set calls: the last value set for a key stays
MapOf(entries) ==
    [k \in {entries[i].key : i \in 1..Len(entries)} |->
        LET at == {i \in 1..Len(entries) : entries[i].key = k}
        IN entries[CHOOSE i \in at : \A j \in at : j <= i].value]

\* the rowLayouts memo, for the events prop evs
RowLayoutsOf(evs) ==
    MapOf(Flatten([n \in 1..Len(groups) |-> GroupLayoutEntriesOf(evs, groups[n])]))

RowLayouts == RowLayoutsOf(events)

----------------------------------------------------------------------------
(* date-fns as used by Timeline.tsx, on minute instants *)

StartOfDay(t) == t - (t % MinutesPerDay)
\* full 24 hour periods between the two instants, truncated towards zero
DifferenceInDays(later, earlier) == Trunc(later - earlier, MinutesPerDay)
\* full hours between the two instants, truncated towards zero
DifferenceInHours(later, earlier) == Trunc(later - earlier, MinutesPerHour)
GetHours(t) == (t % MinutesPerDay) \div MinutesPerHour
GetMinutes(t) == t % MinutesPerHour

----------------------------------------------------------------------------
(* Timeline.tsx: activeStartDate, cellWidth, columnsCount, getEventStyle *)

ActiveStartDate == IF viewScale = "day" THEN propStartDate ELSE StartOfDay(propStartDate)
CellWidth == IF viewScale = "day" THEN CELL_WIDTH ELSE CELL_WIDTH_HOUR
ColumnsCount == IF viewScale = "day" THEN daysToShow ELSE 24
\* the instant at which column i (0-based) starts: addDays / addHours
ColumnStart(i) ==
    IF viewScale = "day" THEN ActiveStartDate + i * MinutesPerDay
    ELSE ActiveStartDate + i * MinutesPerHour

\* left and width are numerators over PxDen; NaN stands for a NaN length
GetEventStyle(event, laneIndex) ==
    LET eventStart == event.startDate
        eventEnd == event.endDate
        \* (getHours() + getMinutes() / 60) / 24, times MinutesPerDay
        startOffset == GetHours(eventStart) * MinutesPerHour + GetMinutes(eventStart)
        endOffset == GetHours(eventEnd) * MinutesPerHour + GetMinutes(eventEnd)
        dayLeft ==
            (DifferenceInDays(eventStart, ActiveStartDate) * MinutesPerDay + startOffset)
                * CellWidth
        dayWidth ==
            Max((DifferenceInDays(eventEnd, eventStart) * MinutesPerDay
                    + (endOffset - startOffset)) * CellWidth,
                4 * PxDen)
        hourLeft ==
            (DifferenceInHours(eventStart, ActiveStartDate) * MinutesPerHour
                + GetMinutes(eventStart)) * CellWidth * (PxDen \div MinutesPerHour)
        hourWidth ==
            Max((DifferenceInHours(eventEnd, eventStart) * MinutesPerHour
                    + (GetMinutes(eventEnd) - GetMinutes(eventStart)))
                    * CellWidth * (PxDen \div MinutesPerHour),
                4 * PxDen)
    IN [left |-> IF IsNaN(eventStart) THEN NaN
                 ELSE IF viewScale = "day" THEN dayLeft ELSE hourLeft,
        width |-> IF IsNaN(eventStart) \/ IsNaN(eventEnd) THEN NaN
                  ELSE IF viewScale = "day" THEN dayWidth ELSE hourWidth,
        top |-> 5 + (laneIndex * (EVENT_HEIGHT + EVENT_GAP)),
        height |-> EVENT_HEIGHT]

----------------------------------------------------------------------------
(* Timeline.tsx: the rows emitted for one group, sidebar and grid body *)

RealVehicles(g) == SelectSeq(VehiclesByGroup(g), LAMBDA v : ~v.isVirtual)
VirtualVehicles(g) == SelectSeq(VehiclesByGroup(g), LAMBDA v : v.isVirtual)

QueueRows(g) ==
    LET queueKeys == PendingQueues(g)
    IN [i \in 1..Len(queueKeys) |->
           [group |-> g, kind |-> "queue", key |-> QueueRowKey(g, queueKeys[i])]]
VirtualRows(g) ==
    LET vs == VirtualVehicles(g)
    IN [i \in 1..Len(vs) |-> [group |-> g, kind |-> "virtual", key |-> VehicleRowKey(vs[i])]]
RealRows(g) ==
    LET vs == RealVehicles(g)
    IN [i \in 1..Len(vs) |-> [group |-> g, kind |-> "real", key |-> VehicleRowKey(vs[i])]]

\* sidebar: queueKeys.map, virtualVehicles.map, realVehicles.map
SidebarGroupRows(g) == QueueRows(g) \o VirtualRows(g) \o RealRows(g)

GridGroupRows_VirtualLast(g) == QueueRows(g) \o RealRows(g) \o VirtualRows(g)
\* grid body: queueKeys.map, virtualVehicles.map, realVehicles.map
GridGroupRows(g) == QueueRows(g) \o VirtualRows(g) \o RealRows(g)

\* renderEventBar for every event of the row's layout
Bars(layout) ==
    [i \in 1..Len(layout.eventsWithLanes) |->
        [id |-> layout.eventsWithLanes[i].event.id,
         laneIndex |-> layout.eventsWithLanes[i].laneIndex,
         style |-> GetEventStyle(layout.eventsWithLanes[i].event,
                                 layout.eventsWithLanes[i].laneIndex)]]

SidebarRows(layouts) ==
    LET rows == Flatten([n \in 1..Len(groups) |-> SidebarGroupRows(groups[n])])
    IN [i \in 1..Len(rows) |->
           [group |-> rows[i].group, kind |-> rows[i].kind, key |-> rows[i].key,
            height |-> layouts[rows[i].key].height]]

GridRows(layouts) ==
    LET rows == Flatten([n \in 1..Len(groups) |-> GridGroupRows(groups[n])])
    IN [i \in 1..Len(rows) |->
           [group |-> rows[i].group, kind |-> rows[i].kind, key |-> rows[i].key,
            height |-> layouts[rows[i].key].height,
            bars |-> Bars(layouts[rows[i].key])]]

----------------------------------------------------------------------------
(* One render pass of the Timeline component *)

\* a plausible slip: the lane written onto the event object itself
\* (ev.laneIndex = i) instead of onto a wrapper { event, laneIndex }
Render_AnnotatesEvents ==
    /\ phase = "props"
    /\ LET layouts == RowLayouts
           placed == UNION {{layouts[k].eventsWithLanes[i] :
                                i \in DOMAIN layouts[k].eventsWithLanes} :
                            k \in DOMAIN layouts}
       IN /\ rowLayouts' = layouts
          /\ sidebarRows' = SidebarRows(layouts)
          /\ gridRows' = GridRows(layouts)
          /\ events' = [n \in DOMAIN events |->
                 IF \E p \in placed : p.event.id = events[n].id
                 THEN events[n] @@
                      [laneIndex |-> (CHOOSE p \in placed : p.event.id = events[n].id).laneIndex]
                 ELSE events[n]]
    /\ phase' = "rendered"
    /\ UNCHANGED <<groups, vehicles, propStartDate, daysToShow, viewScale, sortTie,
                   shellVars, scrollVars>>

Render ==
    /\ phase = "props"
    /\ LET layouts == RowLayouts
       IN /\ rowLayouts' = layouts
          /\ sidebarRows' = SidebarRows(layouts)
          /\ gridRows' = GridRows(layouts)
    /\ phase' = "rendered"
    /\ UNCHANGED <<groups, vehicles, events, propStartDate, daysToShow, viewScale,
                   sortTie, shellVars, scrollVars>>

Next == Render

NotRendered ==
    /\ rowLayouts = <<>>
    /\ sidebarRows = <<>>
    /\ gridRows = <<>>
    /\ phase = "props"

\* the App state behind the props: startDate = addDays(currentDate, -1)
ShellFollowsProps ==
    /\ currentDate = propStartDate + MinutesPerDay
    /\ onlyWithBookings = FALSE

\* nothing to scroll and nothing scrolled
ScrollAtRest ==
    /\ topScrollLeft = 0 /\ mainScrollLeft = 0
    /\ topScrollMax = 0 /\ mainScrollMax = 0
    /\ pendingScroll = {}
    /\ isSyncing = FALSE
    /\ userScrolls = 0

\* the priorities that keep the array order
StableEngine == [i \in 1..MaxEvents |-> i]

Event(id, type, g, v, s, e, model, loc) ==
    [id |-> id, type |-> type, groupId |-> g, vehicleId |-> v,
     startDate |-> s, endDate |-> e, modelPreference |-> model, pickupLocation |-> loc]

----------------------------------------------------------------------------
(* SpecLanes: one row (a concrete vehicle, a virtual vehicle or a queue)     *)
(* with every list of up to MaxEvents events over the instants 0..MaxTime    *)

Times == 0..MaxTime

InitLanes ==
    /\ groups = <<"g1">>
    /\ \E kind \in {"real", "virtual", "queue"} :
       \E n \in 0..MaxEvents :
       \E range \in [1..n -> Times \X Times] :
          /\ vehicles = <<[id |-> "v1", groupId |-> "g1", isVirtual |-> (kind = "virtual")]>>
          /\ events = [i \in 1..n |->
                IF kind = "queue"
                THEN Event(i, BOOKING_UNASSIGNED, "g1", Null, range[i][1], range[i][2],
                           <<"Toyota Yaris">>, <<"Narita">>)
                ELSE Event(i, BOOKING_ASSIGNED, "g1", "v1", range[i][1], range[i][2],
                           <<>>, <<"Narita">>)]
    /\ propStartDate = 0
    /\ daysToShow = 1
    /\ viewScale = "day"
    /\ sortTie = StableEngine
    /\ ShellFollowsProps
    /\ ScrollAtRest
    /\ NotRendered

SpecLanes == InitLanes /\ [][Next]_vars

----------------------------------------------------------------------------
(* Vocabulary of the properties *)

Rendered == phase = "rendered"
RowIds == DOMAIN gridRows
IsInfiniteRow(r) == gridRows[r].kind \in {"queue", "virtual"}
LayoutOfRow(r) == rowLayouts[gridRows[r].key]
Placed(r) == LayoutOfRow(r).eventsWithLanes
\* the number of lanes the packing of row r produced
LaneCount(r) == Cardinality({Placed(r)[i].laneIndex : i \in DOMAIN Placed(r)})
\* the events of row r in the order in which the row received them
RowInput(r) ==
    SelectSeq(events, LAMBDA e : \E i \in DOMAIN Placed(r) : Placed(r)[i].event.id = e.id)
Overlap(a, b) == CheckOverlap(a.startDate, a.endDate, b.startDate, b.endDate)
WellFormed(e) == e.startDate < e.endDate
StartAscending(s) == \A i, j \in DOMAIN s : i < j => s[i].startDate <= s[j].startDate
\* the largest number of events of s active at one instant (start <= t < end)
Depth(s) ==
    LET active(t) == Cardinality({i \in DOMAIN s : s[i].startDate <= t /\ t < s[i].endDate})
        counts == {active(s[i].startDate) : i \in DOMAIN s} \cup {0}
    IN CHOOSE d \in counts : \A c \in counts : c <= d

----------------------------------------------------------------------------
(* C1: in every unlimited-capacity row, two distinct events with the same    *)
(* laneIndex never overlap per checkOverlap, and in placement order each     *)
(* event of a lane starts no earlier than the end of the event placed just   *)
(* before it in that lane (zero-length and inverted ranges included).        *)
C1_LanePackingCorrect ==
    Rendered =>
        \A r \in RowIds : IsInfiniteRow(r) =>
            \A i, j \in DOMAIN Placed(r) :
                (i < j /\ Placed(r)[i].laneIndex = Placed(r)[j].laneIndex) =>
                    /\ ~Overlap(Placed(r)[i].event, Placed(r)[j].event)
                    /\ (\A k \in (i + 1)..(j - 1) :
                            Placed(r)[k].laneIndex # Placed(r)[i].laneIndex)
                        => Placed(r)[j].event.startDate >= Placed(r)[i].event.endDate

\* an unlimited row in which a lane holds three events, one of them inverted
C1_Witness ==
    /\ Rendered
    /\ \E r \in RowIds :
          /\ IsInfiniteRow(r)
          /\ \E i, j, k \in DOMAIN Placed(r) :
                /\ i < j /\ j < k
                /\ Placed(r)[i].laneIndex = Placed(r)[j].laneIndex
                /\ Placed(r)[j].laneIndex = Placed(r)[k].laneIndex
                /\ Placed(r)[j].event.endDate < Placed(r)[j].event.startDate

(* C2: for well-formed events supplied in start-ascending order to an        *)
(* unlimited-capacity row, the number of lanes used equals the depth of the  *)
(* interval set (the largest number of events active at one instant).        *)
C2_LaneCountIsDepth ==
    Rendered =>
        \A r \in RowIds :
            (/\ IsInfiniteRow(r)
             /\ \A i \in DOMAIN RowInput(r) : WellFormed(RowInput(r)[i])
             /\ StartAscending(RowInput(r)))
            => LaneCount(r) = Depth(RowInput(r))

\* three well-formed sorted events: two overlap, the third reuses a lane
C2_Witness ==
    /\ Rendered
    /\ \E r \in RowIds :
          /\ IsInfiniteRow(r)
          /\ Len(RowInput(r)) = 3
          /\ \A i \in DOMAIN RowInput(r) : WellFormed(RowInput(r)[i])
          /\ StartAscending(RowInput(r))
          /\ Depth(RowInput(r)) = 2
          /\ LaneCount(r) = 2

\* three pending events of one queue row that overlap pairwise
ThreeMutuallyOverlapping(r) ==
    /\ gridRows[r].kind = "queue"
    /\ Len(Placed(r)) = 3
    /\ \A i, j \in DOMAIN Placed(r) :
          i # j => Overlap(Placed(r)[i].event, Placed(r)[j].event)

C4_Original ==
    Rendered =>
        \A r \in RowIds : LaneCount(r) <= 1 => gridRows[r].height = 50

(* C4 amended: a row with zero or one lane has height ROW_HEIGHT_STD when it *)
(* is single-capacity and 12 + (EVENT_HEIGHT + EVENT_GAP) + 12 = 68 when it  *)
(* is unlimited-capacity (virtual or queue, an empty virtual vehicle         *)
(* included); only a second and further lanes make a row taller than that.   *)
C4_SmallRowHeight ==
    Rendered =>
        \A r \in RowIds :
            /\ LaneCount(r) <= 1 =>
                   gridRows[r].height = (IF IsInfiniteRow(r) THEN 68 ELSE 50)
            /\ gridRows[r].height > 68 <=> LaneCount(r) >= 2

\* a virtual row with one event, one lane, taller than the standard height
C4_Witness ==
    /\ Rendered
    /\ \E r \in RowIds :
          /\ gridRows[r].kind = "virtual"
          /\ Len(Placed(r)) = 1
          /\ LaneCount(r) = 1
          /\ gridRows[r].height = 68

(* C5: in the row of a concrete (non-virtual) vehicle every event receives   *)
(* laneIndex 0 and the row height is ROW_HEIGHT_STD, whatever the number of  *)
(* events and whether or not they overlap.                                   *)
C5_SingleCapacityNeverStacks ==
    Rendered =>
        \A r \in RowIds : gridRows[r].kind = "real" =>
            /\ \A i \in DOMAIN Placed(r) : Placed(r)[i].laneIndex = 0
            /\ \A b \in DOMAIN gridRows[r].bars : gridRows[r].bars[b].laneIndex = 0
            /\ gridRows[r].height = 50
            /\ Len(Placed(r)) = Len(VehicleEvents([id |-> gridRows[r].key[1]]))

\* a concrete vehicle with two overlapping events
C5_Witness ==
    /\ Rendered
    /\ \E r \in RowIds :
          /\ gridRows[r].kind = "real"
          /\ \E i, j \in DOMAIN Placed(r) :
                i # j /\ Overlap(Placed(r)[i].event, Placed(r)[j].event)

----------------------------------------------------------------------------
(* SpecGeom: one event on a concrete vehicle, every start, end and window    *)
(* start among the instants of days 0..MaxDay at the times of day below,     *)
(* both view scales                                                          *)

\* 00:00, 10:00, 14:00, 14:50, 15:10, 22:00
TimesOfDay == {0, 600, 840, 890, 910, 1320}
Instants == {d * MinutesPerDay + m : d \in 0..MaxDay, m \in TimesOfDay}

InitGeom ==
    /\ groups = <<"g1">>
    /\ vehicles = <<[id |-> "v1", groupId |-> "g1", isVirtual |-> FALSE]>>
    /\ \E s \in Instants, e \in Instants :
          events = <<Event(1, BOOKING_ASSIGNED, "g1", "v1", s, e, <<>>, <<"Narita">>)>>
    /\ propStartDate \in Instants
    /\ daysToShow \in 1..MaxDaysToShow
    /\ viewScale \in {"day", "hour"}
    /\ sortTie = StableEngine
    /\ ShellFollowsProps
    /\ ScrollAtRest
    /\ NotRendered

SpecGeom == InitGeom /\ [][Next]_vars

\* the bars drawn, over all rows
AllBars == UNION {{gridRows[r].bars[b] : b \in DOMAIN gridRows[r].bars} : r \in RowIds}
EventOfBar(bar) == CHOOSE e \in {events[i] : i \in DOMAIN events} : e.id = bar.id
\* the window shown: ColumnsCount columns from ActiveStartDate
WindowEnd == ColumnStart(ColumnsCount)
InsideWindow(e) ==
    /\ ActiveStartDate <= e.startDate
    /\ e.startDate < e.endDate
    /\ e.endDate <= WindowEnd
FloorPx == 4 * PxDen

(* C6: in day scale, every event with end after start gets the width         *)
(* max(d * CELL_WIDTH, 4) where d is the elapsed duration (end - start) in   *)
(* days, also when the end's time of day is earlier than the start's.        *)
C6_DayWidthIsDuration ==
    (Rendered /\ viewScale = "day") =>
        \A bar \in AllBars :
            LET e == EventOfBar(bar)
            IN e.startDate < e.endDate =>
                   bar.style.width = Max((e.endDate - e.startDate) * 140, FloorPx)

(* C7: for an event fully inside the visible window, in day and in hour      *)
(* scale, left / columnWidth is the elapsed time from the window start       *)
(* instant to the event start, in days resp. hours, for every time of day of *)
(* the window start and of the event start.                                  *)
C7_LeftIsElapsedTime ==
    Rendered =>
        \A bar \in AllBars :
            LET e == EventOfBar(bar)
            IN InsideWindow(e) =>
                   IF viewScale = "day"
                   THEN bar.style.left = (e.startDate - ActiveStartDate) * 140
                   ELSE bar.style.left = (e.startDate - ActiveStartDate) * 24 * 60

(* C8: in hour scale every event with end after start gets                   *)
(* left = (hours from window start to event start) * 60 and                  *)
(* width = max((duration in hours) * 60, 4), also when the end's minute of   *)
(* the hour is smaller than the start's; 14:00 to 22:00 on the focus day     *)
(* gets left 840 and width 480.                                              *)
C8_HourScaleGeometry ==
    (Rendered /\ viewScale = "hour") =>
        \A bar \in AllBars :
            LET e == EventOfBar(bar)
            IN e.startDate < e.endDate =>
                   /\ bar.style.left = (e.startDate - ActiveStartDate) * 24 * 60
                   /\ bar.style.width = Max((e.endDate - e.startDate) * 24 * 60, FloorPx)
                   /\ (/\ e.startDate = ActiveStartDate + 840
                       /\ e.endDate = ActiveStartDate + 1320)
                      => (bar.style.left = 840 * PxDen /\ bar.style.width = 480 * PxDen)

(* C9: in both view scales the width of every event with parseable           *)
(* timestamps is >= 4, and it is exactly 4 when startDate equals endDate and *)
(* when the range is inverted (end before start).                            *)
C9_MinimumWidthFloor ==
    Rendered =>
        \A bar \in AllBars :
            LET e == EventOfBar(bar)
            IN /\ bar.style.width >= FloorPx
               /\ e.endDate <= e.startDate => bar.style.width = FloorPx

----------------------------------------------------------------------------
(* SpecRows: every list of distinct groups, of up to MaxVehicles vehicles    *)
(* with distinct ids and of up to MaxRowEvents events; a group or a vehicle  *)
(* an event refers to may be absent from the lists                           *)

GroupIds == {"g1", "g2"}
VehicleIdOf == <<"v1", "v2", "v3", "v4">>
VehicleIds == {VehicleIdOf[i] : i \in 1..MaxVehicles}
Injective(f) == \A i, j \in DOMAIN f : i # j => f[i] # f[j]
TextPairs == {<<<<>>, <<>>>>, <<<<"Toyota Yaris">>, <<"Narita">>>>}
Ranges == {<<0, 2>>, <<1, 3>>}
EventShapes ==
    {BOOKING_ASSIGNED, BOOKING_UNASSIGNED} \X GroupIds \X (VehicleIds \cup {Null})
        \X TextPairs \X Ranges

InitRows ==
    /\ \E n \in 0..Cardinality(GroupIds) :
       \E gs \in [1..n -> GroupIds] :
          Injective(gs) /\ groups = gs
    /\ \E n \in 0..MaxVehicles :
       \E ids \in [1..n -> VehicleIds] :
       \E attrs \in [1..n -> GroupIds \X BOOLEAN] :
          /\ Injective(ids)
          /\ vehicles = [i \in 1..n |->
                [id |-> ids[i], groupId |-> attrs[i][1], isVirtual |-> attrs[i][2]]]
    /\ \E n \in 0..MaxRowEvents :
       \E shape \in [1..n -> EventShapes] :
          events = [i \in 1..n |->
              Event(i, shape[i][1], shape[i][2], shape[i][3],
                    shape[i][5][1], shape[i][5][2], shape[i][4][1], shape[i][4][2])]
    /\ propStartDate = 0
    /\ daysToShow = 1
    /\ viewScale = "day"
    /\ sortTie = StableEngine
    /\ ShellFollowsProps
    /\ ScrollAtRest
    /\ NotRendered

SpecRows == InitRows /\ [][Next]_vars

KindRank(kind) == CASE kind = "queue" -> 0 [] kind = "virtual" -> 1 [] kind = "real" -> 2
\* rows: a sequence of emitted rows; queue, then virtual, then concrete in each group
OrderedByKind(rows) ==
    \A i, j \in DOMAIN rows :
        (i < j /\ rows[i].group = rows[j].group) =>
            KindRank(rows[i].kind) <= KindRank(rows[j].kind)
\* the row emitted for vehicle v is labelled with the kind of v
VehicleRowsOf(rows) ==
    \A n \in DOMAIN vehicles :
        (\E g \in DOMAIN groups : groups[g] = vehicles[n].groupId) =>
            \E i \in DOMAIN rows :
                /\ rows[i].key = <<vehicles[n].id>>
                /\ rows[i].group = vehicles[n].groupId
                /\ rows[i].kind = (IF vehicles[n].isVirtual THEN "virtual" ELSE "real")
\* every pending event of a listed group has a queue row in its group
QueueRowsOf(rows) ==
    \A n \in DOMAIN events :
        (/\ events[n].type = BOOKING_UNASSIGNED
         /\ \E g \in DOMAIN groups : groups[g] = events[n].groupId)
        => \E i \in DOMAIN rows :
               rows[i].kind = "queue" /\ rows[i].group = events[n].groupId

(* C10: in the sidebar and in the grid body, the rows of every group are     *)
(* emitted as all queue rows, then all virtual-vehicle rows, then all        *)
(* concrete-vehicle rows, for every content and order of vehicles and events.*)
C10_RowOrderInGroup ==
    Rendered =>
        /\ OrderedByKind(sidebarRows) /\ OrderedByKind(gridRows)
        /\ VehicleRowsOf(sidebarRows) /\ VehicleRowsOf(gridRows)
        /\ QueueRowsOf(sidebarRows) /\ QueueRowsOf(gridRows)
        /\ Len(sidebarRows) = Len(gridRows)
        /\ \A i \in DOMAIN gridRows : sidebarRows[i].key = gridRows[i].key

\* a group listing a concrete vehicle before a virtual one, with a pending event
C10_Witness ==
    /\ Rendered
    /\ Len(gridRows) = 3
    /\ gridRows[1].kind = "queue" /\ gridRows[2].kind = "virtual" /\ gridRows[3].kind = "real"
    /\ gridRows[1].group = gridRows[3].group
    /\ Len(vehicles) = 2 /\ ~vehicles[1].isVirtual /\ vehicles[2].isVirtual
    /\ sidebarRows[1].kind = "queue" /\ sidebarRows[3].kind = "real"

----------------------------------------------------------------------------
(* SpecQueues: one group without vehicles and every list of up to            *)
(* MaxRowEvents pending events whose model and location are free text,       *)
(* missing, or text that contains the character '|'                          *)

QueueTexts == {<<>>, <<"A">>, <<"B">>, <<"A", "|", "B">>}

InitQueues ==
    /\ groups = <<"g1">>
    /\ vehicles = <<>>
    /\ \E n \in 0..MaxRowEvents :
       \E text \in [1..n -> QueueTexts \X QueueTexts] :
          events = [i \in 1..n |->
              Event(i, BOOKING_UNASSIGNED, "g1", Null, 0, 1, text[i][1], text[i][2])]
    /\ propStartDate = 0
    /\ daysToShow = 1
    /\ viewScale = "day"
    /\ sortTie = StableEngine
    /\ ShellFollowsProps
    /\ ScrollAtRest
    /\ NotRendered

SpecQueues == InitQueues /\ [][Next]_vars

IsListedGroup(g) == \E n \in DOMAIN groups : groups[n] = g
IsPending(e) == e.type = BOOKING_UNASSIGNED
\* the (model, location) pair a pending event is queued under
PendingPair(e) ==
    <<OrElse(e.modelPreference, UnknownModel), OrElse(e.pickupLocation, UnknownLoc)>>
\* the rows of kind k whose layout holds event e
RowsHolding(e, k) ==
    {r \in RowIds : /\ gridRows[r].kind \in k
                    /\ \E i \in DOMAIN Placed(r) : Placed(r)[i].event.id = e.id}

(* C11: every BOOKING_UNASSIGNED event of a listed group is laid out in      *)
(* exactly one queue row of that group, the row of its (model or 'Unknown    *)
(* Model', location or 'Unknown Loc') pair, and two events share a queue row *)
(* only when their pairs are equal, also for text that contains '|'.         *)
C11_QueueBucketing ==
    Rendered =>
        /\ \A n \in DOMAIN events :
               (IsPending(events[n]) /\ IsListedGroup(events[n].groupId)) =>
                   /\ Cardinality(RowsHolding(events[n], {"queue"})) = 1
                   /\ \A r \in RowsHolding(events[n], {"queue"}) :
                          /\ gridRows[r].group = events[n].groupId
                          /\ gridRows[r].key =
                                 QueueRowKey(events[n].groupId, QueueKey(events[n]))
        /\ \A r \in RowIds : gridRows[r].kind = "queue" =>
               \A i, j \in DOMAIN Placed(r) :
                   PendingPair(Placed(r)[i].event) = PendingPair(Placed(r)[j].event)

RowKinds == {"queue", "virtual", "real"}

(* C12: for every input, each event is in the eventsWithLanes of at most one *)
(* row layout, so no event is drawn in two rows; in particular a             *)
(* BOOKING_UNASSIGNED event is never in a queue row and in a vehicle row.    *)
C12_RowsPartitionEvents ==
    Rendered =>
        \A n \in DOMAIN events :
            /\ Cardinality(RowsHolding(events[n], RowKinds)) <= 1
            /\ IsPending(events[n]) =>
                   \/ RowsHolding(events[n], {"queue"}) = {}
                   \/ RowsHolding(events[n], {"virtual", "real"}) = {}

\* the vehicleId of e is the id of no vehicle of the vehicles prop
DanglingVehicle(e) == \A n \in DOMAIN vehicles : vehicles[n].id # e.vehicleId
\* the events prop without its n-th event
EventsWithout(n) == SelectSeq(events, LAMBDA e : e.id # events[n].id)
QueuedInListedGroup(e) == IsPending(e) /\ IsListedGroup(e.groupId)

\* C13 as stated: every event with an unknown vehicleId is in no row at all
C13_Original ==
    Rendered =>
        \A n \in DOMAIN events : DanglingVehicle(events[n]) =>
            /\ RowsHolding(events[n], RowKinds) = {}
            /\ rowLayouts = RowLayoutsOf(EventsWithout(n))

(* C13: an event whose vehicleId is the id of no listed vehicle is in no     *)
(* vehicle row; unless it is a BOOKING_UNASSIGNED event of a listed group    *)
(* (which is laid out in its queue row) it is in no row at all, and every    *)
(* row's lane indices and height are those of the input without the event.   *)
C13_UnknownVehicleDropped ==
    Rendered =>
        \A n \in DOMAIN events : DanglingVehicle(events[n]) =>
            /\ RowsHolding(events[n], {"virtual", "real"}) = {}
            /\ ~QueuedInListedGroup(events[n]) =>
                   /\ RowsHolding(events[n], RowKinds) = {}
                   /\ rowLayouts = RowLayoutsOf(EventsWithout(n))

\* an assigned booking of a listed group on an unlisted vehicle, next to an
\* event that is laid out in a row
C13_Witness ==
    /\ Rendered
    /\ \E n, m \in DOMAIN events :
          /\ DanglingVehicle(events[n])
          /\ events[n].vehicleId # Null
          /\ ~IsPending(events[n])
          /\ IsListedGroup(events[n].groupId)
          /\ RowsHolding(events[n], RowKinds) = {}
          /\ RowsHolding(events[m], RowKinds) # {}

(* C14: an event whose groupId is the id of no listed group is in no row's   *)
(* eventsWithLanes, whether it is a pending event or an event assigned to a  *)
(* listed vehicle.                                                           *)
C14_UnknownGroupDropped ==
    Rendered =>
        \A n \in DOMAIN events :
            ~IsListedGroup(events[n].groupId) => RowsHolding(events[n], RowKinds) = {}

----------------------------------------------------------------------------
(* SpecNaN: one virtual vehicle (an unlimited-capacity row) with every list  *)
(* of up to MaxEvents events whose startDate and endDate parse to 0 or 1 or  *)
(* do not parse, in both view scales, under every order the engine's sort    *)
(* may produce when a start does not parse                                   *)

NaNTimes == {NaN, 0, 1}

InitNaN ==
    /\ groups = <<"g1">>
    /\ vehicles = <<[id |-> "v1", groupId |-> "g1", isVirtual |-> TRUE]>>
    /\ \E n \in 0..MaxEvents :
       \E range \in [1..n -> NaNTimes \X NaNTimes] :
          events = [i \in 1..n |->
              Event(i, BOOKING_ASSIGNED, "g1", "v1", range[i][1], range[i][2],
                    <<>>, <<"Narita">>)]
    /\ sortTie \in IF ConsistentComparator(events) THEN {StableEngine}
                   ELSE Permutations(1..MaxEvents)
    /\ propStartDate = 0
    /\ daysToShow = 1
    /\ viewScale \in {"day", "hour"}
    /\ ShellFollowsProps
    /\ ScrollAtRest
    /\ NotRendered

SpecNaN == InitNaN /\ [][Next]_vars

\* a timestamp of e does not parse
Malformed(e) == IsNaN(e.startDate) \/ IsNaN(e.endDate)

(* C15: in an unlimited-capacity row, an event whose startDate or endDate    *)
(* does not parse is alone in its lane, whether the other events were placed *)
(* before it or after it, and the packing is completed.                      *)
C15_MalformedOwnLane ==
    Rendered =>
        \A r \in RowIds : IsInfiniteRow(r) =>
            /\ Len(Placed(r)) = Len(VehicleEvents(vehicles[1]))
            /\ \A i, j \in DOMAIN Placed(r) :
                   (i # j /\ Malformed(Placed(r)[i].event)) =>
                       Placed(r)[i].laneIndex # Placed(r)[j].laneIndex

(* C16: for an event whose startDate or endDate does not parse, getEventStyle *)
(* returns the minimum width 4, not NaN, in the day scale and in the hour    *)
(* scale, and the bar of the event is prepared.                              *)
C16_MalformedMinimumWidth ==
    Rendered =>
        /\ \A n \in DOMAIN events : \E bar \in AllBars : bar.id = events[n].id
        /\ \A bar \in AllBars :
               Malformed(EventOfBar(bar)) =>
                   ~IsNaN(bar.style.width) /\ bar.style.width = FloorPx

----------------------------------------------------------------------------
(* checkOverlap on the intervals of the events handed to the packer *)

EventSet == {events[i] : i \in DOMAIN events}
\* events a and b are packed in the same unlimited-capacity row
PackedTogether(a, b) ==
    \E r \in RowIds :
        /\ IsInfiniteRow(r)
        /\ \E i, j \in DOMAIN Placed(r) :
              i # j /\ Placed(r)[i].event = a /\ Placed(r)[j].event = b

(* C17: checkOverlap returns false, in both argument orders, whenever one of *)
(* its four timestamps does not parse, in particular when both timestamps of *)
(* one interval do not parse.                                                *)
C17_OverlapFalseOnNaN ==
    Rendered =>
        \A a, b \in EventSet :
            (Malformed(a) \/ Malformed(b)) => (~Overlap(a, b) /\ ~Overlap(b, a))

\* an interval without a parsable timestamp and one with a single parsable
\* timestamp, each packed with an interval that would overlap it
C17_Witness ==
    /\ Rendered
    /\ \E a, b, c \in EventSet :
          /\ IsNaN(a.startDate) /\ IsNaN(a.endDate)
          /\ ~IsNaN(b.startDate) /\ IsNaN(b.endDate)
          /\ c.startDate = 0 /\ c.endDate = 1 /\ b.startDate = 0
          /\ PackedTogether(a, c) /\ PackedTogether(b, c)

(* C18: checkOverlap(s1, e1, s2, e2) = checkOverlap(s2, e2, s1, e1) for all  *)
(* timestamps, whether the intervals are well-formed, empty or inverted.     *)
C18_OverlapSymmetric ==
    Rendered =>
        \A a, b \in EventSet : Overlap(a, b) = Overlap(b, a)

\* an overlapping pair next to an inverted interval, packed in one row
C18_Witness ==
    /\ Rendered
    /\ \E a, b, c \in EventSet :
          /\ WellFormed(a) /\ WellFormed(b) /\ a # b /\ Overlap(a, b)
          /\ c.startDate > c.endDate /\ ~Overlap(a, c)
          /\ PackedTogether(a, b) /\ PackedTogether(a, c)

(* C19: checkOverlap is true exactly when s1 < e2 and s2 < e1, both strict;  *)
(* so checkOverlap(t0, t1, t1, t2) is false for all t0 < t1 < t2.            *)
C19_OverlapStrict ==
    Rendered =>
        \A a, b \in EventSet :
            /\ Overlap(a, b) <=> (a.startDate < b.endDate /\ b.startDate < a.endDate)
            /\ (a.startDate < a.endDate /\ a.endDate = b.startDate
                    /\ b.startDate < b.endDate) => ~Overlap(a, b)

\* two intervals that touch at t1, packed into the same lane
C19_Witness ==
    /\ Rendered
    /\ \E r \in RowIds : IsInfiniteRow(r) /\
          \E i, j \in DOMAIN Placed(r) :
              /\ Placed(r)[i].event.startDate < Placed(r)[i].event.endDate
              /\ Placed(r)[i].event.endDate = Placed(r)[j].event.startDate
              /\ Placed(r)[j].event.startDate < Placed(r)[j].event.endDate
              /\ Placed(r)[i].laneIndex = Placed(r)[j].laneIndex

----------------------------------------------------------------------------
(* Row heights *)

\* C20 as stated: over all rows, more lanes never go with a smaller height
C20_Original ==
    Rendered =>
        \A r1, r2 \in RowIds :
            /\ gridRows[r1].height >= ROW_HEIGHT_STD
            /\ LaneCount(r1) <= LaneCount(r2) => gridRows[r1].height <= gridRows[r2].height

(* C20: every row's height is >= ROW_HEIGHT_STD; among unlimited-capacity    *)
(* rows the height is a non-decreasing function of the lane count, and every *)
(* single-capacity row has the height ROW_HEIGHT_STD whatever it holds.      *)
C20_RowHeightMonotone ==
    Rendered =>
        /\ \A r \in RowIds :
               /\ gridRows[r].height >= ROW_HEIGHT_STD
               /\ ~IsInfiniteRow(r) => gridRows[r].height = ROW_HEIGHT_STD
        /\ \A r1, r2 \in RowIds : (IsInfiniteRow(r1) /\ IsInfiniteRow(r2)) =>
               /\ LaneCount(r1) <= LaneCount(r2) =>
                      gridRows[r1].height <= gridRows[r2].height
               /\ LaneCount(r1) = LaneCount(r2) =>
                      gridRows[r1].height = gridRows[r2].height

\* an empty unlimited row, an unlimited row of two lanes and a concrete row
\* in one render
C20_Witness ==
    /\ Rendered
    /\ \E r1, r2, r3 \in RowIds :
          /\ IsInfiniteRow(r1) /\ LaneCount(r1) = 0
          /\ IsInfiniteRow(r2) /\ LaneCount(r2) = 2
          /\ gridRows[r1].height < gridRows[r2].height
          /\ ~IsInfiniteRow(r3) /\ gridRows[r3].height < gridRows[r1].height

----------------------------------------------------------------------------
(* Determinism and frame of the layout *)

\* the position of event e in the events prop
InputIndex(e) == CHOOSE n \in DOMAIN events : events[n].id = e.id

C22_LayoutReadOnly ==
    [][Render =>
          /\ groups' = groups /\ vehicles' = vehicles /\ events' = events
          /\ \A n \in DOMAIN events' : "laneIndex" \notin DOMAIN events'[n]]_vars

\* a pass that sorted a copy: the row is laid out start-ascending while the
\* events prop still holds its events in their unsorted input order
C22_Witness ==
    /\ Rendered
    /\ ~StartAscending(events)
    /\ \E r \in RowIds :
          /\ IsInfiniteRow(r)
          /\ Len(Placed(r)) = Len(events)
          /\ Len(events) >= 2
          /\ StartAscending([i \in DOMAIN Placed(r) |-> Placed(r)[i].event])
          /\ \A i \in DOMAIN Placed(r) : "laneIndex" \in DOMAIN Placed(r)[i]

----------------------------------------------------------------------------
(* Vertical placement of the bars *)

\* the vertical range [top, top + EVENT_HEIGHT] of a bar
BarTop(bar) == bar.style.top
BarBottom(bar) == bar.style.top + bar.style.height

(* C23: every bar's vertical offset is pad + laneIndex * (EVENT_HEIGHT +     *)
(* EVENT_GAP) for one pad; bars in different lanes of a row occupy disjoint  *)
(* vertical ranges, and every bar's range [top, top + EVENT_HEIGHT] lies in  *)
(* [0, height of its row], in single-capacity and unlimited-capacity rows.   *)
C23_BarsFitTheirRow ==
    Rendered =>
        /\ \E pad \in 0..ROW_HEIGHT_STD :
               \A bar \in AllBars :
                   /\ BarTop(bar) = pad + bar.laneIndex * (EVENT_HEIGHT + EVENT_GAP)
                   /\ bar.style.height = EVENT_HEIGHT
        /\ \A r \in RowIds :
               \A i, j \in DOMAIN gridRows[r].bars :
                   LET a == gridRows[r].bars[i]
                       b == gridRows[r].bars[j]
                   IN /\ 0 <= BarTop(a) /\ BarBottom(a) <= gridRows[r].height
                      /\ a.laneIndex < b.laneIndex => BarBottom(a) < BarTop(b)

\* an unlimited row of three lanes, whose lowest bar ends inside the row
C23_Witness ==
    /\ Rendered
    /\ \E r \in RowIds :
          /\ IsInfiniteRow(r)
          /\ LaneCount(r) = 3
          /\ \E i \in DOMAIN gridRows[r].bars :
                /\ gridRows[r].bars[i].laneIndex = 2
                /\ BarBottom(gridRows[r].bars[i]) < gridRows[r].height

----------------------------------------------------------------------------
(* App.tsx: the shell's date and view state, the vehicle filter and the      *)
(* props handed to the Timeline.  MOCK_EVENTS is the events variable, and    *)
(* with no text or status filter set filteredEvents is MOCK_EVENTS.          *)

AddDays(t, n) == t + n * MinutesPerDay

\* the fleet of the modelled shell: one concrete vehicle
MOCK_VEHICLES == <<[id |-> "v1", groupId |-> "g1", isVirtual |-> FALSE]>>

\* filteredVehicles in the shell state (cd, n, owb), all other filters unset
FilteredVehicles(cd, n, owb) ==
    LET currentViewEnd == AddDays(cd, n)
    IN SelectSeq(MOCK_VEHICLES, LAMBDA v :
           owb => \E i \in DOMAIN events :
                      /\ events[i].vehicleId = v.id
                      /\ CheckOverlap(events[i].startDate, events[i].endDate,
                                      cd, currentViewEnd))

\* the shell keeps its dates inside the modelled range of days
InShellRange(t) == AddDays(0, 1) <= t /\ t < AddDays(0, MaxShellDay + 1)

\* new Date(): the instant of the call
Nows == {AddDays(0, 2) + 870, AddDays(0, 3)}
\* new Date(e.target.value) of a date input: midnight UTC of the chosen day,
\* which is 00:00 local time at UTC+0 and 09:00 at UTC+9
DateInputs == {AddDays(0, d) + offset : d \in {1, 3, MaxShellDay}, offset \in {0, 540}}
\* the header cells the user clicks (0-based column numbers)
ClickedColumns == {0, 1, 2, 14, 23}

\* the state setters of a handler: App then hands startDate =
\* addDays(currentDate, -1) and filteredVehicles to the Timeline, whose
\* previous output is dropped until the render pass that follows
ShellUpdate(cd, n, scale, owb) ==
    /\ phase = "rendered"
    /\ currentDate' = cd
    /\ daysToShow' = n
    /\ viewScale' = scale
    /\ onlyWithBookings' = owb
    /\ propStartDate' = AddDays(cd, -1)
    /\ vehicles' = FilteredVehicles(cd, n, owb)
    /\ UNCHANGED <<groups, events, sortTie, scrollVars>>
    /\ rowLayouts' = <<>>
    /\ sidebarRows' = <<>>
    /\ gridRows' = <<>>
    /\ phase' = "props"

HandleDatePrev ==
    /\ InShellRange(AddDays(currentDate, -7))
    /\ ShellUpdate(AddDays(currentDate, -7), daysToShow, viewScale, onlyWithBookings)

HandleDateNext ==
    /\ InShellRange(AddDays(currentDate, 7))
    /\ ShellUpdate(AddDays(currentDate, 7), daysToShow, viewScale, onlyWithBookings)

HandleToday ==
    /\ phase = "rendered"
    /\ \E now \in Nows : ShellUpdate(now, daysToShow, "day", onlyWithBookings)

\* onClick={() => onDateClick(date)} on the header cell of column i
HandleDateClickFromTimeline ==
    \E i \in ClickedColumns \cap 0..(ColumnsCount - 1) :
        /\ InShellRange(ColumnStart(i))
        /\ ShellUpdate(ColumnStart(i), 1, "hour", onlyWithBookings)

\* the button is rendered in hour scale only
HandleBackToOverview ==
    /\ viewScale = "hour"
    /\ ShellUpdate(currentDate, 21, "day", onlyWithBookings)

\* the Week and Month buttons
ShowWeek ==
    /\ phase = "rendered"
    /\ ShellUpdate(currentDate, 7, "day", onlyWithBookings)

ShowMonth ==
    /\ phase = "rendered"
    /\ ShellUpdate(currentDate, 30, "day", onlyWithBookings)

\* a plausible slip: the guard written newDiff >= 0
StartDateChange_AllowsZero(d) ==
    LET newStart == d
        currentEnd == AddDays(currentDate, daysToShow)
        newDiff == DifferenceInDays(currentEnd, newStart)
    IN IF newDiff >= 0 THEN <<newStart, newDiff>> ELSE <<currentDate, daysToShow>>

\* <<currentDate, daysToShow>> after handleStartDateChange with the input d
StartDateChange(d) ==
    LET newStart == d
        currentEnd == AddDays(currentDate, daysToShow)
        newDiff == DifferenceInDays(currentEnd, newStart)
    IN IF newDiff > 0 THEN <<newStart, newDiff>> ELSE <<currentDate, daysToShow>>

\* <<currentDate, daysToShow>> after handleEndDateChange with the input d
EndDateChange(d) ==
    LET newEnd == d
        newDiff == DifferenceInDays(newEnd, currentDate)
    IN IF newDiff > 0 THEN <<currentDate, newDiff>> ELSE <<currentDate, daysToShow>>

HandleStartDateChange ==
    \E d \in DateInputs :
        IF StartDateChange(d) = <<currentDate, daysToShow>>
        THEN phase = "rendered" /\ UNCHANGED vars
        ELSE /\ StartDateChange(d)[2] <= MaxShellSpan
             /\ ShellUpdate(StartDateChange(d)[1], StartDateChange(d)[2], viewScale,
                            onlyWithBookings)

HandleEndDateChange ==
    \E d \in DateInputs :
        IF EndDateChange(d) = <<currentDate, daysToShow>>
        THEN phase = "rendered" /\ UNCHANGED vars
        ELSE ShellUpdate(EndDateChange(d)[1], EndDateChange(d)[2], viewScale,
                         onlyWithBookings)

\* the 'only booked' checkbox
ToggleOnlyWithBookings ==
    /\ phase = "rendered"
    /\ ShellUpdate(currentDate, daysToShow, viewScale, ~onlyWithBookings)

HandleReset ==
    /\ phase = "rendered"
    /\ \E now \in Nows : ShellUpdate(now, 21, "day", FALSE)

NextShell ==
    \/ Render
    \/ HandleDatePrev \/ HandleDateNext \/ HandleToday
    \/ HandleDateClickFromTimeline \/ HandleBackToOverview
    \/ ShowWeek \/ ShowMonth
    \/ HandleStartDateChange \/ HandleEndDateChange
    \/ ToggleOnlyWithBookings \/ HandleReset

(* SpecShell: the shell as mounted (currentDate = now, 21 days, day scale),  *)
(* one event of the vehicle v1 lasting a day, and every sequence of shell    *)
(* operations that keeps currentDate within the days 1..MaxShellDay and      *)
(* daysToShow within 1..MaxShellSpan                                         *)

ShellEventStarts == {AddDays(0, 1) + 870, AddDays(0, MaxShellDay)}

InitShell ==
    /\ groups = <<"g1">>
    /\ \E s \in ShellEventStarts :
          events = <<Event(1, BOOKING_ASSIGNED, "g1", "v1", s, AddDays(s, 1),
                           <<>>, <<"Narita">>)>>
    /\ currentDate \in Nows
    /\ daysToShow = 21
    /\ viewScale = "day"
    /\ onlyWithBookings = FALSE
    /\ propStartDate = AddDays(currentDate, -1)
    /\ vehicles = FilteredVehicles(currentDate, daysToShow, onlyWithBookings)
    /\ sortTie = StableEngine
    /\ ScrollAtRest
    /\ NotRendered

SpecShell == InitShell /\ [][NextShell]_vars

\* the hour columns shown are the hours 00:00 to 23:00 of the day of t
ShowsHoursOfDayOf(t) ==
    /\ viewScale = "hour"
    /\ ColumnsCount = 24
    /\ \A h \in 0..23 : ColumnStart(h) = StartOfDay(t) + h * MinutesPerHour

(* C24: a header-cell click delivering the date D, in day scale or in hour   *)
(* scale, leaves the shell in hour scale with the 24 hour columns 00:00 to   *)
(* 23:00 of the day of D (the handler stores D as currentDate).              *)
C24_DateClickFocusesDate ==
    [][HandleDateClickFromTimeline => ShowsHoursOfDayOf(currentDate)']_vars

----------------------------------------------------------------------------
(* The lane acceptance gate and the shape of the packer's output *)

\* last.end <= candidate.start as JavaScript evaluates it: false on NaN
EndsByStartOf(lastEvent, ev) ==
    /\ ~IsNaN(lastEvent.endDate) /\ ~IsNaN(ev.startDate)
    /\ lastEvent.endDate <= ev.startDate

(* C25: the two-condition gate of the packer accepts a candidate behind a    *)
(* lane's last event iff last.end <= candidate.start, for all inputs         *)
(* (inverted ranges and unparsable timestamps included), so an event is      *)
(* appended to a lane exactly when the lane's last event ends by its start.  *)
C25_GateIsEndBeforeStart ==
    Rendered =>
        /\ \A a, b \in EventSet : LaneAccepts(a, b) <=> EndsByStartOf(b, a)
        /\ \A r \in RowIds : IsInfiniteRow(r) =>
               \A i, j \in DOMAIN Placed(r) :
                   (/\ i < j
                    /\ Placed(r)[i].laneIndex = Placed(r)[j].laneIndex
                    /\ \A k \in (i + 1)..(j - 1) :
                           Placed(r)[k].laneIndex # Placed(r)[i].laneIndex)
                   => EndsByStartOf(Placed(r)[i].event, Placed(r)[j].event)

\* a candidate appended behind an inverted range, next to an event with an
\* unparsable timestamp that was refused
C25_Witness ==
    /\ Rendered
    /\ \E r \in RowIds : IsInfiniteRow(r) /\
          \E i, j, k \in DOMAIN Placed(r) :
              /\ i < j
              /\ Placed(r)[i].laneIndex = Placed(r)[j].laneIndex
              /\ Placed(r)[i].event.startDate > Placed(r)[i].event.endDate
              /\ ~IsNaN(Placed(r)[i].event.endDate)
              /\ IsNaN(Placed(r)[k].event.startDate)
              /\ Placed(r)[k].laneIndex # Placed(r)[i].laneIndex

\* every list of up to MaxEvents well-formed events over the instants Times
WellFormedLists ==
    UNION {{[i \in 1..n |->
                Event(i, BOOKING_ASSIGNED, "g1", "v1", range[i][1], range[i][2],
                      <<>>, <<"Narita">>)] :
            range \in [1..n -> {p \in Times \X Times : p[1] < p[2]}]} :
           n \in 0..MaxEvents}
\* the number of lanes a layout uses
LanesUsed(layout) ==
    Cardinality({layout.eventsWithLanes[i].laneIndex :
                     i \in DOMAIN layout.eventsWithLanes})

\* C26 as stated: some list of well-formed events, in some input order, is
\* packed into more lanes than its maximum overlap depth
C26_Original ==
    \E list \in WellFormedLists : LanesUsed(ComputeLanes(list, TRUE)) > Depth(list)

(* C26: for every list of well-formed events in every input order, an       *)
(* unlimited-capacity row uses exactly as many lanes as the maximum overlap  *)
(* depth of its events: the packer sorts by start before it places, and      *)
(* first fit over start-sorted intervals is an optimal colouring.            *)
C26_GreedyAfterSortIsMinimal ==
    Rendered =>
        \A r \in RowIds :
            (IsInfiniteRow(r) /\ \A i \in DOMAIN RowInput(r) : WellFormed(RowInput(r)[i]))
            => /\ LaneCount(r) = Depth(RowInput(r))
               /\ LanesUsed(ComputeLanes(RowInput(r), TRUE)) = LaneCount(r)

\* three well-formed events handed over with the latest start first, two lanes
C26_Witness ==
    /\ Rendered
    /\ \E r \in RowIds :
          /\ IsInfiniteRow(r)
          /\ Len(RowInput(r)) = 3
          /\ \A i \in DOMAIN RowInput(r) : WellFormed(RowInput(r)[i])
          /\ RowInput(r)[1].startDate > RowInput(r)[2].startDate
          /\ RowInput(r)[1].startDate > RowInput(r)[3].startDate
          /\ LaneCount(r) = 2
          /\ Depth(RowInput(r)) = 2

----------------------------------------------------------------------------
(* The shell's vehicle filter and view window *)

\* event e overlaps the window the timeline displays: ColumnsCount columns
\* from ActiveStartDate
OverlapsDisplayedWindow(e) ==
    CheckOverlap(e.startDate, e.endDate, ActiveStartDate, WindowEnd)
IsKept(v) == \E n \in DOMAIN vehicles : vehicles[n].id = v.id
MockVehicleSet == {MOCK_VEHICLES[n] : n \in DOMAIN MOCK_VEHICLES}

(* C27: with onlyWithBookings enabled, a vehicle is kept iff at least one of *)
(* its events overlaps the window the timeline displays, so a vehicle with   *)
(* an event inside the displayed window is never filtered out.               *)
C27_OnlyBookedMatchesView ==
    (Rendered /\ onlyWithBookings) =>
        \A v \in MockVehicleSet :
            IsKept(v) <=> \E e \in EventSet :
                              e.vehicleId = v.id /\ OverlapsDisplayedWindow(e)

\* the custom range [currentDate, currentDate + daysToShow days) with the
\* start, respectively the end, replaced by the input d is empty or negative
EmptyWithStart(d) == d >= AddDays(currentDate, daysToShow)
EmptyWithEnd(d) == d <= currentDate

(* C28: after any sequence of shell operations daysToShow is an integer >= 1 *)
(* and viewScale is 'day' or 'hour'; a custom start or end change that would *)
(* make the window empty or negative leaves currentDate and daysToShow as    *)
(* they are.                                                                 *)
C28_ViewWindowInvariant ==
    /\ daysToShow \in Nat /\ daysToShow >= 1
    /\ viewScale \in {"day", "hour"}
    /\ \A d \in DateInputs :
           /\ EmptyWithStart(d) => StartDateChange(d) = <<currentDate, daysToShow>>
           /\ EmptyWithEnd(d) => EndDateChange(d) = <<currentDate, daysToShow>>

\* a custom window of 2 days in hour scale, in which a start input and an
\* end input that would empty the window are on offer
C28_Witness ==
    /\ Rendered
    /\ daysToShow = 2
    /\ viewScale = "hour"
    /\ \E d \in DateInputs : EmptyWithEnd(d)
    /\ \E d \in DateInputs : EmptyWithStart(d)


----------------------------------------------------------------------------
(* The packer's output as a lane-annotated permutation *)

\* the rowEvents handed to computeLanes for each unlimited-capacity row
UnlimitedRowInputs ==
    UNION {{[key |-> QueueRowKey(groups[n], PendingQueues(groups[n])[i]),
             input |-> QueueEvents(groups[n], PendingQueues(groups[n])[i])] :
            i \in DOMAIN PendingQueues(groups[n])}
           \cup
           {[key |-> VehicleRowKey(VehiclesByGroup(groups[n])[i]),
             input |-> VehicleEvents(VehiclesByGroup(groups[n])[i])] :
            i \in {k \in DOMAIN VehiclesByGroup(groups[n]) :
                       VehiclesByGroup(groups[n])[k].isVirtual}} :
           n \in DOMAIN groups}
\* out holds every element of input as often as input does, and nothing else
IsAnnotatedPermutation(input, out) ==
    /\ Len(out) = Len(input)
    /\ \A i \in DOMAIN input :
           Cardinality({j \in DOMAIN out : out[j].event = input[i]})
               = Cardinality({k \in DOMAIN input : input[k] = input[i]})
\* the lanes that exist when the j-th event of out is placed
LanesBefore(out, j) == {out[k].laneIndex : k \in 1..(j - 1)}
\* the last event of lane l when the j-th event of out is placed
LastOfLaneBefore(out, j, l) ==
    LET at == {k \in 1..(j - 1) : out[k].laneIndex = l}
    IN out[CHOOSE k \in at : \A m \in at : m <= k].event
\* the j-th event of out sits in the lowest lane that accepted it, or, no
\* lane accepting it, in a new lane that takes the next index
InLowestAcceptingLane(out, j) ==
    LET accepting == {l \in LanesBefore(out, j) :
                          LaneAccepts(out[j].event, LastOfLaneBefore(out, j, l))}
    IN IF accepting = {}
       THEN out[j].laneIndex = Cardinality(LanesBefore(out, j))
       ELSE /\ out[j].laneIndex \in accepting
            /\ \A l \in accepting : out[j].laneIndex <= l

(* C29: in an unlimited-capacity row, eventsWithLanes holds every event of   *)
(* the row exactly once, the lane indices used are exactly 0..L-1 for the    *)
(* number L of lanes the packer opened (the row's height is that of L        *)
(* lanes), and every event is in the lowest-index lane that accepted it when *)
(* it was placed, or in a new lane if none did.                              *)
C29_LaneAnnotatedPermutation ==
    Rendered =>
        \A r \in RowIds : IsInfiniteRow(r) =>
            \A p \in UnlimitedRowInputs : p.key = gridRows[r].key =>
                LET L == Len(PackLanes(SortByStart(p.input)).lanes)
                IN /\ IsAnnotatedPermutation(p.input, Placed(r))
                   /\ {Placed(r)[j].laneIndex : j \in DOMAIN Placed(r)} = 0..(L - 1)
                   /\ gridRows[r].height = Max(ROW_HEIGHT_STD, DynamicHeight(L))
                   /\ \A j \in DOMAIN Placed(r) : InLowestAcceptingLane(Placed(r), j)

\* two lanes that both accept the third event, which went to lane 0
C29_Witness ==
    /\ Rendered
    /\ \E r \in RowIds :
          /\ IsInfiniteRow(r)
          /\ \E p \in UnlimitedRowInputs : p.key = gridRows[r].key /\ Len(p.input) = 3
          /\ Len(Placed(r)) = 3
          /\ Placed(r)[1].laneIndex = 0 /\ Placed(r)[2].laneIndex = 1
          /\ LaneAccepts(Placed(r)[3].event, Placed(r)[1].event)
          /\ LaneAccepts(Placed(r)[3].event, Placed(r)[2].event)
          /\ Placed(r)[3].laneIndex = 0


----------------------------------------------------------------------------
(* Timeline.tsx: the top scrollbar and the main pane, and their handlers *)

\* what an element with the scroll range 0..max keeps of a scrollLeft write
ClampScroll(x, max) == IF x < 0 THEN 0 ELSE IF x > max THEN max ELSE x

\* the user scrolls an element (wheel, scrollbar thumb, or the drag of
\* handleMouseMove on the main pane): its scroll event is queued
UserScrollTop ==
    /\ phase = "rendered"
    /\ userScrolls < MaxUserScrolls
    /\ \E x \in 0..topScrollMax :
          /\ x # topScrollLeft
          /\ topScrollLeft' = x
    /\ pendingScroll' = pendingScroll \cup {"top"}
    /\ userScrolls' = userScrolls + 1
    /\ UNCHANGED <<mainScrollLeft, topScrollMax, mainScrollMax, isSyncing>>
    /\ UNCHANGED <<groups, vehicles, events, propStartDate, daysToShow, viewScale,
                   rowLayouts, sidebarRows, gridRows, phase, sortTie, shellVars>>

UserScrollMain ==
    /\ phase = "rendered"
    /\ userScrolls < MaxUserScrolls
    /\ \E x \in 0..mainScrollMax :
          /\ x # mainScrollLeft
          /\ mainScrollLeft' = x
    /\ pendingScroll' = pendingScroll \cup {"main"}
    /\ userScrolls' = userScrolls + 1
    /\ UNCHANGED <<topScrollLeft, topScrollMax, mainScrollMax, isSyncing>>
    /\ UNCHANGED <<groups, vehicles, events, propStartDate, daysToShow, viewScale,
                   rowLayouts, sidebarRows, gridRows, phase, sortTie, shellVars>>

\* the scroll event of the main pane is dispatched: handleScrollMain runs to
\* its end. The write to the top scrollbar is clamped to its range, and
\* queues a scroll event of the top scrollbar only if its offset changed.
HandleScrollMain ==
    /\ phase = "rendered"
    /\ "main" \in pendingScroll
    /\ IF isSyncing
       THEN /\ topScrollLeft' = topScrollLeft
            /\ pendingScroll' = pendingScroll \ {"main"}
       ELSE LET kept == ClampScroll(mainScrollLeft, topScrollMax)
            IN /\ topScrollLeft' = kept
               /\ pendingScroll' = (pendingScroll \ {"main"})
                                       \cup (IF kept # topScrollLeft THEN {"top"} ELSE {})
    /\ isSyncing' = FALSE
    /\ UNCHANGED <<mainScrollLeft, topScrollMax, mainScrollMax, userScrolls>>
    /\ UNCHANGED <<groups, vehicles, events, propStartDate, daysToShow, viewScale,
                   rowLayouts, sidebarRows, gridRows, phase, sortTie, shellVars>>

\* the scroll event of the top scrollbar is dispatched: handleScrollTop
HandleScrollTop ==
    /\ phase = "rendered"
    /\ "top" \in pendingScroll
    /\ IF isSyncing
       THEN /\ mainScrollLeft' = mainScrollLeft
            /\ pendingScroll' = pendingScroll \ {"top"}
       ELSE LET kept == ClampScroll(topScrollLeft, mainScrollMax)
            IN /\ mainScrollLeft' = kept
               /\ pendingScroll' = (pendingScroll \ {"top"})
                                       \cup (IF kept # mainScrollLeft THEN {"main"} ELSE {})
    /\ isSyncing' = FALSE
    /\ UNCHANGED <<topScrollLeft, topScrollMax, mainScrollMax, userScrolls>>
    /\ UNCHANGED <<groups, vehicles, events, propStartDate, daysToShow, viewScale,
                   rowLayouts, sidebarRows, gridRows, phase, sortTie, shellVars>>

NextScroll ==
    \/ Render
    \/ UserScrollTop
    \/ UserScrollMain
    \/ HandleScrollTop
    \/ HandleScrollMain

\* both elements are as wide as the component and hold content of the width
\* totalContentWidth + SIDEBAR_WIDTH; the main pane scrolls vertically too,
\* and if its rows overflow, a vertical scrollbar takes ScrollbarWidth from
\* its width where the platform's scrollbars take space
InitScroll ==
    /\ groups = <<"g1">>
    /\ vehicles = <<[id |-> "v1", groupId |-> "g1", isVirtual |-> TRUE]>>
    /\ \E n \in 0..1 :
          events = [i \in 1..n |->
              Event(i, BOOKING_ASSIGNED, "g1", "v1", 0, 1, <<>>, <<"Narita">>)]
    /\ sortTie = StableEngine
    /\ propStartDate = 0
    /\ daysToShow = 1
    /\ viewScale \in {"day", "hour"}
    /\ ShellFollowsProps
    /\ topScrollLeft = 0 /\ mainScrollLeft = 0
    /\ topScrollMax \in 0..MaxScroll
    /\ mainScrollMax \in {topScrollMax, topScrollMax + ScrollbarWidth}
    /\ pendingScroll = {}
    /\ isSyncing = FALSE
    /\ userScrolls = 0
    /\ NotRendered

\* the browser dispatches every queued scroll event, and React renders
SpecScroll ==
    /\ InitScroll
    /\ [][NextScroll]_vars
    /\ WF_vars(Render)
    /\ WF_vars(HandleScrollTop)
    /\ WF_vars(HandleScrollMain)

\* a scroll handler has run
ScrollHandled == HandleScrollTop \/ HandleScrollMain
\* no scroll event is queued
Quiescent == pendingScroll = {}

\* the handler that ran left the two offsets the same
HandlersEqualise == [][ScrollHandled => topScrollLeft' = mainScrollLeft']_vars
\* from some point on no scroll event is queued
HandlersQuiesce == <>[]Quiescent

(* C30: after a scroll event of the top scrollbar or of the main pane has    *)
(* been handled, both elements have the same scrollLeft, and the handlers'   *)
(* own writes never start an unbounded chain of handler invocations: after   *)
(* the user's scrolls no scroll event stays queued.                          *)
C30_ScrollSynchronisation == HandlersEqualise /\ HandlersQuiesce
====
